---- MODULE Spec2Model ----
(***************************************************************************)
(* Model of the SSH core of pacemaker-mcp (src/src/ssh.ts):                *)
(*   - runSshCommand: the per-call promise, its timeout timer, the hop and *)
(*     target ssh2 clients and the exec channel, as an event-driven state  *)
(*     machine (specification Spec, two concurrent calls);                 *)
(*   - parseOpenSshConfigForHost and the synchronous part of runSshCommand *)
(*     that resolves the connection (specification SpecResolve).           *)
(***************************************************************************)
EXTENDS Integers, Sequences, FiniteSets, TLC

\* ------------------------------------------------------------------ bounds
\* most output chunks (stdout and stderr together) one command produces
MaxChunks == 2
\* most lines of a config text
MaxLines == 6

\* ------------------------------------------------------------ call machine
Calls == {"c1", "c2"}
\* the code of the channel's close event: a number, or null when none was reported
NoCode == [reported |-> FALSE, code |-> 0]
Code(n) == [reported |-> TRUE, code |-> n]
ExitCodes == {Code(0), Code(3), NoCode}
\* the timeoutMs argument: undefined, 0, or a positive number of milliseconds
NoTimeout == [given |-> FALSE, ms |-> 0]
Ms(n) == [given |-> TRUE, ms |-> n]
TimeoutChoices == {NoTimeout, Ms(0), Ms(5000)}
\* what the synchronous head of forwardViaJump can do (lines 196-210)
HopResolutions == {"ok", "HopNotFound", "HopMissingHostName"}
\* throws of runSshCommand before the promise is created (lines 141-171)
PreambleErrors == {"NoAlias", "ConfigUnreadable", "AliasNotFound", "MissingHostName", "KeyUnreadable"}

VARIABLES
  pc,            \* position of the async body of runSshCommand, per call
  useHop,        \* parsed.proxyJump is set
  hopKey,        \* hopConn.privateKey is set (a hop identity file was read)
  timeoutMs,     \* the timeoutMs argument
  timer,         \* the setTimeout handle: none / armed / fired / cleared
  jumpClient,    \* the closure variable jumpClient is assigned
  targetClient,  \* the closure variable targetClient is assigned
  hop,           \* the hop ssh2 Client: none / connecting / open / closed / failed
  tgt,           \* the target ssh2 Client, same states
  chan,          \* the exec channel: none / opening / open / closed / failed
  stdout,        \* accumulator of the close handler's closure
  stderr,
  outcome,       \* what the returned promise settled to (Pending before)
  thrown,        \* the err a failing step handed to the catch or to exec's callback
  arrivals,      \* history: the stream ("out"/"err") of each data event, in arrival order
  closeCode,     \* history: the code the channel's close event carried
  transport,     \* what the target client was given to connect over: none / direct / forwarded
  attempts,      \* history: how often each step of the call was started
  ends,          \* history: how often end() was called on the hop and on the target client
  \* parseOpenSshConfigForHost and the head of runSshCommand (SpecResolve)
  rpc,           \* position: scan (in the line loop) / returned / connected / failed
  alias,         \* the alias argument
  nread,         \* lines of the config text consumed so far
  inMatch,       \* the parser's inMatch flag
  found,         \* the parser's found flag
  cfg,           \* the parser's cfg accumulator
  listed,        \* history: Host lines seen so far that list the alias (0, 1, 2 = more)
  inFirst,       \* history: the scan is inside the first block that lists the alias
  firstBlock,    \* history: the attributes of the first block that lists the alias
  parsed,        \* what parseOpenSshConfigForHost returned
  clusterCfg,    \* the ClusterConnectionConfig argument and the environment
  connection,    \* the ConnectConfig built for the target
  resolveError,  \* the error thrown by the head of runSshCommand or by forwardViaJump
  hopScan,       \* parseOpenSshConfigForHost(sshRaw, h) on the same text, per hop alias h
  hopConn,       \* the ConnectConfig built for the hop and the arguments of forwardOut
  block,         \* history: the IdentityFile lines of the block the entry is taken from
  \* loadConfig and resolveConnection (SpecMerge)
  mpc,           \* position: start / loaded / resolved / rejected
  file,          \* the config file: whether one is found, its default and its clusters.prod
  env,           \* the PACEMAKER_* environment variables
  args,          \* the arguments of the tool call
  globalConfig,  \* what loadConfig returned
  conf           \* what mergeConfig returned in resolveConnection

callVars == <<pc, useHop, hopKey, timeoutMs, timer, jumpClient, targetClient, hop, tgt,
              chan, stdout, stderr, outcome, thrown, arrivals, closeCode, transport, attempts, ends>>
vars == <<pc, useHop, hopKey, timeoutMs, timer, jumpClient, targetClient, hop, tgt,
          chan, stdout, stderr, outcome, thrown, arrivals, closeCode, transport, attempts, ends,
          rpc, alias, nread, inMatch, found, cfg,
          listed, inFirst, firstBlock, parsed, clusterCfg, connection, resolveError,
          hopScan, hopConn, block, mpc, file, env, args, globalConfig, conf>>
parseVars == <<rpc, alias, nread, inMatch, found, cfg, listed, inFirst, firstBlock, parsed,
               clusterCfg, connection, resolveError, hopScan, hopConn, block>>
mergeVars == <<mpc, file, env, args, globalConfig, conf>>

Pending == [kind |-> "pending"]
Err(e) == [kind |-> "error", error |-> e]
Result(out, err, code) == [kind |-> "result", stdout |-> out, stderr |-> err, exitCode |-> code]

\* resolve()/reject() of the promise: only the first call settles it
SettleOverwrite(cur, new) == new
Settle(cur, new) == IF cur = Pending THEN new ELSE cur

\* clear(): clearTimeout on the timer if one was set
ClearNoop(t) == t
Clear(t) == IF t = "armed" THEN "cleared" ELSE t

\* Client.end() on a session
Ended(s) == IF s = "open" THEN "closed" ELSE s

\* `if (client) client.end()` for the call i only
EndAll(f, assigned, i) == [j \in Calls |-> Ended(f[j])]
EndOf(f, assigned, i) == IF assigned THEN [f EXCEPT ![i] = Ended(@)] ELSE f

\* `stdout += data.toString()` / `stderr += data.toString()` (lines 315, 319)
AccumulateFront(acc, d) == <<d>> \o acc
Accumulate(acc, d) == Append(acc, d)

\* the transport of the target client: connection (host, port) in direct mode
\* (line 291), targetConn with `sock` and no host in proxy mode (lines 274-289)
TransportDirect(viaHop) == "direct"
TransportOf(viaHop) == IF viaHop THEN "forwarded" ELSE "direct"

NoAttempts == [hop |-> 0, forward |-> 0, target |-> 0, exec |-> 0]

\* the end() calls of one cleanup: `if (jumpClient) jumpClient.end()` and the like
EndCalls(e, onHop, onTarget) ==
  [hop |-> e.hop + (IF onHop THEN 1 ELSE 0), tgt |-> e.tgt + (IF onTarget THEN 1 ELSE 0)]

TimeoutErr == Err("Timeout")
\* `timeoutMs && timeoutMs > 0` (line 258)
PositiveOrZero(t) == t.given
Positive(t) == t.given /\ t.ms # 0 /\ t.ms > 0
Armed(t) == IF Positive(t) THEN "armed" ELSE "none"

InitCalls ==
  /\ pc = [i \in Calls |-> "idle"]
  /\ useHop = [i \in Calls |-> FALSE]
  /\ hopKey = [i \in Calls |-> FALSE]
  /\ timeoutMs = [i \in Calls |-> NoTimeout]
  /\ timer = [i \in Calls |-> "none"]
  /\ jumpClient = [i \in Calls |-> FALSE]
  /\ targetClient = [i \in Calls |-> FALSE]
  /\ hop = [i \in Calls |-> "none"]
  /\ tgt = [i \in Calls |-> "none"]
  /\ chan = [i \in Calls |-> "none"]
  /\ stdout = [i \in Calls |-> <<>>]
  /\ stderr = [i \in Calls |-> <<>>]
  /\ outcome = [i \in Calls |-> Pending]
  /\ thrown = [i \in Calls |-> "none"]
  /\ arrivals = [i \in Calls |-> <<>>]
  /\ ends = [i \in Calls |-> [hop |-> 0, tgt |-> 0]]
  /\ closeCode = [i \in Calls |-> NoCode]
  /\ transport = [i \in Calls |-> "none"]
  /\ attempts = [i \in Calls |-> NoAttempts]

\* ------------------------------------------------- parseOpenSshConfigForHost
\* A line of the config text is the sequence of its whitespace-separated tokens
\* (what trim() and the \s+ of the regular expressions leave); <<>> is a blank line.
Undef == [set |-> FALSE, v |-> <<>>]
Val(v) == [set |-> TRUE, v |-> v]
\* JavaScript truthiness of an optional string
Truthy(x) == x.set /\ x.v # <<>>

Aliases == {"a", "b"}
LinePool == {
  <<>>,
  <<"#", "Host", "a">>,
  <<"Host", "a">>,
  <<"host", "b", "a">>,
  <<"Host", "b">>,
  <<"Host", "a*">>,
  <<"HostName">>,
  <<"HostName", "h1">>,
  <<"hostname", "h2", "#note">>,
  <<"User", "u1">>,
  <<"Port", "2222">>,
  <<"Port", "abc">>,
  <<"IdentityFile", "~/k1">>,
  <<"IdentityFile", "k2">>,
  <<"StrictHostKeyChecking", "No">>,
  <<"StrictHostKeyChecking", "yes">>,
  <<"UserKnownHostsFile", "\"/dev/null\"">>,
  <<"ProxyJump", "u2@b,c">>,
  <<"ProxyCommand", "ssh", "-W", "%h:%p", "b", "-i", "~/k3">>,
  <<"ProxyCommand", "ssh", "-W", "x", "-W", "%h:%p", "b">>,
  <<"ProxyCommand", "nc", "%h", "%p">>
}

\* String.prototype.toLowerCase on the tokens that are not already lower case
Lower(t) ==
  CASE t = "Host" -> "host"
    [] t = "HostName" -> "hostname"
    [] t = "User" -> "user"
    [] t = "Port" -> "port"
    [] t = "IdentityFile" -> "identityfile"
    [] t = "StrictHostKeyChecking" -> "stricthostkeychecking"
    [] t = "UserKnownHostsFile" -> "userknownhostsfile"
    [] t = "ProxyJump" -> "proxyjump"
    [] t = "ProxyCommand" -> "proxycommand"
    [] t = "No" -> "no"
    [] OTHER -> t
LowerAll(v) == [k \in 1..Len(v) |-> Lower(v[k])]

\* the tokens that begin with '#'
HashTokens == {"#", "#note"}
\* the tokens that match [A-Za-z][A-Za-z0-9\-]* (the key of a key-value line)
KeyWords == {"Host", "host", "HostName", "hostname", "User", "Port", "IdentityFile",
             "StrictHostKeyChecking", "UserKnownHostsFile", "ProxyJump", "ProxyCommand",
             "a", "b", "h1", "h2", "u1", "abc", "k1", "k2", "k3", "No", "yes", "ssh", "nc", "x"}
\* value.replace(/^"(.*)"$/, "$1") on one token
Unquote(t) == IF t = "\"/dev/null\"" THEN "/dev/null" ELSE t
IsQuoted(t) == t = "\"/dev/null\""

\* index of the first element of v that is in S, 0 if none
RECURSIVE FirstIn(_, _, _)
FirstIn(v, S, k) ==
  IF k > Len(v) THEN 0 ELSE IF v[k] \in S THEN k ELSE FirstIn(v, S, k + 1)

\* line 65: `!line || line.startsWith("#")`
IsSkipped(line) == line = <<>> \/ line[1] \in HashTokens
\* line 40: /^\s*Host\s+/i
isHostLine(line) == Len(line) >= 2 /\ Lower(line[1]) = "host"
\* lines 41-44
parseHostTokens(line) == Tail(line)
\* lines 46-61: undefined, or the lower-cased key and the value with an inline
\* comment cut off and one layer of double quotes removed
HasKv(line) == Len(line) >= 2 /\ line[1] \in KeyWords
KvKey(line) == Lower(line[1])
KvValue(line) ==
  LET rest == Tail(line)
      whole == Len(rest) = 1 /\ IsQuoted(rest[1])
      cut == FirstIn(rest, HashTokens, 1)
      kept == IF ~whole /\ cut > 0 THEN SubSeq(rest, 1, cut - 1) ELSE rest
  IN  IF Len(kept) = 1 THEN <<Unquote(kept[1])>> ELSE kept

\* Number(pair.value): NaN is reported as ok = FALSE
NumberOf(v) ==
  IF v = <<>> THEN [ok |-> TRUE, n |-> 0]
  ELSE IF v = <<"2222">> THEN [ok |-> TRUE, n |-> 2222]
  ELSE [ok |-> FALSE, n |-> 0]

EmptyCfg ==
  [hostName |-> Undef, user |-> Undef, port |-> Undef, identityFiles |-> <<>>,
   strictHostKeyChecking |-> Undef, userKnownHostsFile |-> Undef, proxyJump |-> Undef,
   proxyCommandRaw |-> Undef, proxyJumpIdentityFile |-> Undef]

\* lines 102-126: the ProxyCommand heuristic
ApplyProxyCommandKeep(c, tokens) ==
  LET isSSH == tokens # <<>> /\ tokens[1] \in {"ssh", "/usr/bin/ssh"}
      wIndex == FirstIn(tokens, {"-W"}, 1)
      iIndex == FirstIn(tokens, {"-i"}, 1)
      c1 == [c EXCEPT !.proxyCommandRaw = Val(tokens)]
  IN  IF isSSH /\ wIndex > 0 /\ wIndex + 1 <= Len(tokens) /\ tokens[wIndex + 1] = "%h:%p"
        THEN LET c2 == IF wIndex + 2 <= Len(tokens) /\ tokens[wIndex + 2] # "" /\ ~c1.proxyJump.set
                         THEN [c1 EXCEPT !.proxyJump = Val(<<Unquote(tokens[wIndex + 2])>>)]
                         ELSE c1
             IN  IF iIndex > 0 /\ iIndex + 1 <= Len(tokens) /\ tokens[iIndex + 1] # ""
                   THEN [c2 EXCEPT !.proxyJumpIdentityFile = Val(<<Unquote(tokens[iIndex + 1])>>)]
                   ELSE c2
        ELSE c1
ApplyProxyCommand(c, tokens) ==
  LET isSSH == tokens # <<>> /\ tokens[1] \in {"ssh", "/usr/bin/ssh"}
      wIndex == FirstIn(tokens, {"-W"}, 1)
      iIndex == FirstIn(tokens, {"-i"}, 1)
      c1 == [c EXCEPT !.proxyCommandRaw = Val(tokens)]
  IN  IF isSSH /\ wIndex > 0 /\ wIndex + 1 <= Len(tokens) /\ tokens[wIndex + 1] = "%h:%p"
        THEN LET c2 == IF wIndex + 2 <= Len(tokens) /\ tokens[wIndex + 2] # ""
                         THEN [c1 EXCEPT !.proxyJump = Val(<<Unquote(tokens[wIndex + 2])>>)]
                         ELSE c1
             IN  IF iIndex > 0 /\ iIndex + 1 <= Len(tokens) /\ tokens[iIndex + 1] # ""
                   THEN [c2 EXCEPT !.proxyJumpIdentityFile = Val(<<Unquote(tokens[iIndex + 1])>>)]
                   ELSE c2
        ELSE c1

\* lines 90-91: cfg.identityFiles.push(pair.value)
PushReplacing(list, value) == <<value>>
Push(list, value) == Append(list, value)

\* lines 77-129: the switch on pair.key
ApplyKv(c, key, value) ==
  CASE key = "hostname" -> [c EXCEPT !.hostName = Val(value)]
    [] key = "user" -> [c EXCEPT !.user = Val(value)]
    [] key = "port" -> IF NumberOf(value).ok THEN [c EXCEPT !.port = Val(<<NumberOf(value).n>>)] ELSE c
    [] key = "identityfile" -> [c EXCEPT !.identityFiles = Push(@, value)]
    [] key = "stricthostkeychecking" -> [c EXCEPT !.strictHostKeyChecking = Val(LowerAll(value))]
    [] key = "userknownhostsfile" -> [c EXCEPT !.userKnownHostsFile = Val(value)]
    [] key = "proxyjump" -> [c EXCEPT !.proxyJump = Val(value)]
    [] key = "proxycommand" -> ApplyProxyCommand(c, value)
    [] OTHER -> c

NoCluster == [insecureAcceptUnknownHostKeys |-> "unset", privateKeyPath |-> Undef, SSH_AUTH_SOCK |-> FALSE,
              argsUsername |-> Undef]
NoConnection == [host |-> <<>>, port |-> 0, username |-> <<>>, credential |-> "none", key |-> <<>>, hostVerifier |-> FALSE]

\* the aliases a proxyJump value of the text can name
HopAliases == {"b", "c"}
NoScan == [inMatch |-> FALSE, found |-> FALSE, cfg |-> EmptyCfg, stopped |-> FALSE, listed |-> FALSE]
NoHopConn ==
  [alias |-> "", host |-> <<>>, port |-> 0, username |-> <<>>, credential |-> "none", key |-> <<>>,
   hostVerifier |-> FALSE, sock |-> FALSE, srcIP |-> "", srcPort |-> 0, dstHost |-> <<>>, dstPort |-> 0]
NoBlock == [lists |-> FALSE, kv |-> FALSE, ids |-> <<>>, frozen |-> FALSE]

InitScan(al) ==
  /\ rpc = "scan"
  /\ alias = al
  /\ nread = 0
  /\ inMatch = FALSE
  /\ found = FALSE
  /\ cfg = EmptyCfg
  /\ listed = 0
  /\ inFirst = FALSE
  /\ firstBlock = EmptyCfg
  /\ parsed = Undef
  /\ clusterCfg = NoCluster
  /\ connection = NoConnection
  /\ resolveError = "none"
  /\ hopScan = [h \in HopAliases |-> NoScan]
  /\ hopConn = NoHopConn
  /\ block = NoBlock

\* lines 132-133
Returned(f, c) == IF f THEN Val(c) ELSE Undef


\* lines 14-20: a leading ~ becomes the home directory
expandHome(t) ==
  CASE t = "~/k1" -> "/home/me/k1"
    [] t = "~/k3" -> "/home/me/k3"
    [] OTHER -> t

\* line 70: tokens.some((t) => t === alias)
Lists(line, al) == \E k \in 1..Len(parseHostTokens(line)) : parseHostTokens(line)[k] = al
ListsAlias(line) == Lists(line, alias)

\* one iteration of the line loop (lines 63-130) of a call of the parser for
\* alias al; stopped is the break of line 67, listed the history of line 70
ScanLine(st, line, al) ==
  IF st.stopped \/ IsSkipped(line) THEN st
  ELSE IF isHostLine(line)
    THEN IF st.found THEN [st EXCEPT !.stopped = TRUE]
         ELSE [st EXCEPT !.inMatch = Lists(line, al), !.listed = @ \/ Lists(line, al)]
  ELSE IF ~st.inMatch \/ ~HasKv(line) THEN st
  ELSE [st EXCEPT !.found = TRUE, !.cfg = ApplyKv(@, KvKey(line), KvValue(line))]

\* history of the block the returned entry is taken from: the first block whose
\* Host line lists the alias and that holds a key-value line; its IdentityFile
\* values in the order of the lines
TrackBlock(b, line) ==
  IF b.frozen \/ IsSkipped(line) THEN b
  ELSE IF isHostLine(line)
    THEN IF b.lists /\ b.kv THEN [b EXCEPT !.frozen = TRUE]
         ELSE [NoBlock EXCEPT !.lists = ListsAlias(line)]
  ELSE IF ~b.lists \/ ~HasKv(line) THEN b
  ELSE [b EXCEPT !.kv = TRUE,
                 !.ids = IF KvKey(line) = "identityfile" THEN Append(@, KvValue(line)) ELSE @]

\* history of the text read so far: how many Host lines listed the alias, and what
\* the block under the first of them holds
Track(line) ==
  IF IsSkipped(line) THEN UNCHANGED <<listed, inFirst, firstBlock>>
  ELSE IF isHostLine(line)
    THEN /\ listed' = IF ListsAlias(line) THEN (IF listed = 0 THEN 1 ELSE 2) ELSE listed
         /\ inFirst' = (ListsAlias(line) /\ listed = 0)
         /\ firstBlock' = firstBlock
    ELSE /\ firstBlock' = IF inFirst /\ HasKv(line) THEN ApplyKv(firstBlock, KvKey(line), KvValue(line)) ELSE firstBlock
         /\ UNCHANGED <<listed, inFirst>>

\* one iteration of the line loop (lines 63-130); the break is followed by the
\* return of lines 132-133
ReadLine ==
  /\ rpc = "scan"
  /\ nread < MaxLines
  /\ \E line \in LinePool :
       /\ Track(line)
       /\ hopScan' = [h \in HopAliases |-> ScanLine(hopScan[h], line, h)]
       /\ block' = TrackBlock(block, line)
       /\ IF IsSkipped(line) THEN UNCHANGED <<rpc, inMatch, found, cfg, parsed>>
          ELSE IF isHostLine(line)
            THEN IF found
                   THEN /\ rpc' = "stopped"
                        /\ parsed' = Returned(found, cfg)
                        /\ UNCHANGED <<inMatch, found, cfg>>
                   ELSE /\ inMatch' = ListsAlias(line)
                        /\ UNCHANGED <<rpc, found, cfg, parsed>>
          ELSE IF ~inMatch \/ ~HasKv(line) THEN UNCHANGED <<rpc, inMatch, found, cfg, parsed>>
          ELSE /\ found' = TRUE
               /\ cfg' = ApplyKv(cfg, KvKey(line), KvValue(line))
               /\ UNCHANGED <<rpc, inMatch, parsed>>
  /\ nread' = nread + 1
  /\ UNCHANGED <<alias, clusterCfg, connection, resolveError, hopConn>>
  /\ UNCHANGED <<callVars, mergeVars>>

\* a line of the text after the break: never looked at by the parser
UnreadLine ==
  /\ rpc = "stopped"
  /\ nread < MaxLines
  /\ \E line \in LinePool :
       /\ Track(line)
       /\ hopScan' = [h \in HopAliases |-> ScanLine(hopScan[h], line, h)]
       /\ block' = TrackBlock(block, line)
  /\ nread' = nread + 1
  /\ UNCHANGED <<rpc, alias, inMatch, found, cfg, parsed, clusterCfg, connection, resolveError, hopConn>>
  /\ UNCHANGED <<callVars, mergeVars>>

\* the text ends: the loop is left and the function returns (lines 132-133)
EndOfText ==
  /\ rpc \in {"scan", "stopped"}
  /\ rpc' = "returned"
  /\ parsed' = Returned(found, cfg)
  /\ UNCHANGED <<alias, nread, inMatch, found, cfg, listed, inFirst, firstBlock, clusterCfg, connection, resolveError>>
  /\ UNCHANGED <<hopScan, hopConn, block>>
  /\ UNCHANGED <<callVars, mergeVars>>

\* line 153
Identity(pv) == IF Len(pv.identityFiles) > 0 /\ pv.identityFiles[1] # <<>>
                  THEN Val(<<expandHome(pv.identityFiles[1][1])>>) ELSE Undef

\* the resolved ClusterConnectionConfig, the environment, and the username
\* argument of the tool call (tools/pcs.ts)
ClusterCfgs ==
  [insecureAcceptUnknownHostKeys : {"true", "false", "unset"},
   privateKeyPath : {Undef},
   SSH_AUTH_SOCK : BOOLEAN,
   argsUsername : {Undef}]
  \cup
  [insecureAcceptUnknownHostKeys : {"unset"},
   privateKeyPath : {Val(<<"kcfg">>)},
   SSH_AUTH_SOCK : BOOLEAN,
   argsUsername : {Undef}]
  \cup
  [insecureAcceptUnknownHostKeys : {"unset"},
   privateKeyPath : {Undef},
   SSH_AUTH_SOCK : {FALSE},
   argsUsername : {Val(<<"uarg">>)}]

\* lines 150-156 and 171: the throws of the head of runSshCommand, which happen
\* before any field of cfg other than sshConfigHost and sshConfigPath is read
ResolveFails ==
  /\ rpc = "returned"
  /\ \/ ~parsed.set /\ resolveError' = "AliasNotFound"
     \/ parsed.set /\ ~Truthy(parsed.v.hostName) /\ resolveError' = "MissingHostName"
     \/ parsed.set /\ Truthy(parsed.v.hostName) /\ Truthy(Identity(parsed.v)) /\ resolveError' = "KeyUnreadable"
  /\ rpc' = "failed"
  /\ UNCHANGED <<alias, nread, inMatch, found, cfg, listed, inFirst, firstBlock, parsed, clusterCfg, connection>>
  /\ UNCHANGED <<hopScan, hopConn, block>>
  /\ UNCHANGED <<callVars, mergeVars>>

\* lines 176-184
RelaxIgnoresOverride(cc, pv) ==
  \/ cc.insecureAcceptUnknownHostKeys = "true"
  \/ pv.strictHostKeyChecking = Val(<<"no">>)
  \/ (Truthy(pv.userKnownHostsFile) /\ pv.userKnownHostsFile = Val(<<"/dev/null">>))
Relax(cc, pv) ==
  LET relaxByConfig == cc.insecureAcceptUnknownHostKeys = "true"
      relaxBySshConfig ==
        /\ \/ pv.strictHostKeyChecking = Val(<<"no">>)
           \/ (Truthy(pv.userKnownHostsFile) /\ pv.userKnownHostsFile = Val(<<"/dev/null">>))
        /\ cc.insecureAcceptUnknownHostKeys # "false"
  IN  relaxByConfig \/ relaxBySshConfig

\* lines 170-174: [credential, key]
Credential(cc, pv) ==
  IF Truthy(Identity(pv)) THEN [credential |-> "privateKey", key |-> Identity(pv).v]
  ELSE IF cc.SSH_AUTH_SOCK THEN [credential |-> "agent", key |-> <<>>]
  ELSE [credential |-> "none", key |-> <<>>]

\* lines 157-184: the ConnectConfig of the target
BuildConnection ==
  /\ rpc = "returned"
  /\ parsed.set
  /\ Truthy(parsed.v.hostName)
  /\ \E cc \in ClusterCfgs :
       /\ clusterCfg' = cc
       /\ connection' =
            [host |-> parsed.v.hostName.v,
             port |-> IF parsed.v.port.set THEN parsed.v.port.v[1] ELSE 22,
             username |-> IF Truthy(parsed.v.user) THEN parsed.v.user.v ELSE <<"localuser">>,
             credential |-> Credential(cc, parsed.v).credential,
             key |-> Credential(cc, parsed.v).key,
             hostVerifier |-> Relax(cc, parsed.v)]
  /\ rpc' = "connected"
  /\ UNCHANGED <<alias, nread, inMatch, found, cfg, listed, inFirst, firstBlock, parsed, resolveError>>
  /\ UNCHANGED <<hopScan, hopConn, block>>
  /\ UNCHANGED <<callVars, mergeVars>>

\* ---------------------------------------------------------- forwardViaJump
\* line 200: parsed.proxyJump.split(",")[0].trim(), on the values the text can hold
lastHop(v) == CASE v = <<"u2@b,c">> -> "c" [] OTHER -> v[1]
firstHop(v) == CASE v = <<"u2@b,c">> -> "u2@b" [] OTHER -> v[1]
\* lines 201-203: the split at the first '@'
hopAlias(f) == CASE f = "u2@b" -> "b" [] OTHER -> f
hopUserOverride(f) == CASE f = "u2@b" -> Val(<<"u2">>) [] OTHER -> Undef
\* line 204
hopParsed(h) == Returned(hopScan[h].found, hopScan[h].cfg)

\* lines 212-217
hopIdentityOwnFirst(pv, hv) ==
  IF Truthy(Identity(hv)) THEN Identity(hv)
  ELSE IF Truthy(pv.proxyJumpIdentityFile) THEN Val(<<expandHome(pv.proxyJumpIdentityFile.v[1])>>)
  ELSE Undef
hopIdentity(pv, hv) ==
  IF Truthy(pv.proxyJumpIdentityFile) THEN Val(<<expandHome(pv.proxyJumpIdentityFile.v[1])>>)
  ELSE Identity(hv)

\* lines 227-231: [credential, key]
HopCredential(cc, pv, hv) ==
  IF Truthy(hopIdentity(pv, hv)) THEN [credential |-> "privateKey", key |-> hopIdentity(pv, hv).v]
  ELSE IF cc.SSH_AUTH_SOCK THEN [credential |-> "agent", key |-> <<>>]
  ELSE [credential |-> "none", key |-> <<>>]

\* lines 232-238: relaxHop and the override, for the entry pv of the target and
\* the entry hv of the hop
relaxHopByTarget(cc, pv, hv) == Relax(cc, pv)
relaxHop(cc, pv, hv) == Relax(cc, hv)

\* lines 196-210 and 228: the throws of forwardViaJump before the hop connects
HopResolveFails ==
  /\ rpc = "connected"
  /\ Truthy(parsed.v.proxyJump)
  /\ LET h == hopAlias(firstHop(parsed.v.proxyJump.v))
         e == hopParsed(h)
     IN  \/ ~e.set /\ resolveError' = "HopNotFound"
         \/ e.set /\ ~Truthy(e.v.hostName) /\ resolveError' = "HopMissingHostName"
         \/ /\ e.set /\ Truthy(e.v.hostName) /\ Truthy(hopIdentity(parsed.v, e.v))
            /\ resolveError' = "HopKeyUnreadable"
  /\ rpc' = "hopFailed"
  /\ UNCHANGED <<alias, nread, inMatch, found, cfg, listed, inFirst, firstBlock, parsed, clusterCfg, connection>>
  /\ UNCHANGED <<hopScan, hopConn, block>>
  /\ UNCHANGED <<callVars, mergeVars>>

\* lines 200-245: the ConnectConfig of the hop, which is connected to directly
\* (no sock), and the arguments of the forwardOut request made on it
BuildHopConnection ==
  /\ rpc = "connected"
  /\ Truthy(parsed.v.proxyJump)
  /\ LET f == firstHop(parsed.v.proxyJump.v)
         h == hopAlias(f)
         e == hopParsed(h)
     IN  /\ e.set
         /\ Truthy(e.v.hostName)
         /\ hopConn' =
              [alias |-> h,
               host |-> e.v.hostName.v,
               port |-> IF e.v.port.set THEN e.v.port.v[1] ELSE 22,
               username |-> IF Truthy(hopUserOverride(f)) THEN hopUserOverride(f).v
                            ELSE IF Truthy(e.v.user) THEN e.v.user.v ELSE <<"localuser">>,
               credential |-> HopCredential(clusterCfg, parsed.v, e.v).credential,
               key |-> HopCredential(clusterCfg, parsed.v, e.v).key,
               hostVerifier |-> relaxHop(clusterCfg, parsed.v, e.v),
               sock |-> FALSE,
               srcIP |-> "127.0.0.1", srcPort |-> 0,
               dstHost |-> connection.host, dstPort |-> connection.port]
  /\ rpc' = "hopConnected"
  /\ UNCHANGED <<alias, nread, inMatch, found, cfg, listed, inFirst, firstBlock, parsed, clusterCfg, connection>>
  /\ UNCHANGED <<resolveError, hopScan, block>>
  /\ UNCHANGED <<callVars, mergeVars>>

NextResolve ==
  \/ ReadLine \/ UnreadLine \/ EndOfText \/ ResolveFails \/ BuildConnection
  \/ HopResolveFails \/ BuildHopConnection

\* ------------------------------------------- loadConfig, resolveConnection
\* A connection config holds here three of the fields of ClusterConnectionConfig;
\* defined = FALSE is `undefined` in place of the object.
Fields == {"sshConfigHost", "sudo", "privateKeyPath"}
NoConf == [defined |-> FALSE, sshConfigHost |-> Undef, sudo |-> Undef, privateKeyPath |-> Undef]
Conf(h, s, k) == [defined |-> TRUE, sshConfigHost |-> h, sudo |-> s, privateKeyPath |-> k]

FileEntries ==
  {NoConf,
   Conf(Val(<<"hf">>), Undef, Undef),
   Conf(Val(<<"hf">>), Val(<<"true">>), Val(<<"kf">>)),
   Conf(Undef, Val(<<"true">>), Undef)}
Files ==
  {[exists |-> FALSE, default |-> NoConf, prod |-> NoConf]}
  \cup [exists : {TRUE}, default : FileEntries, prod : FileEntries]
Envs ==
  [PACEMAKER_SSH_CONFIG_HOST : {Undef, Val(<<"he">>)},
   PACEMAKER_USE_SUDO : {Undef, Val(<<"1">>), Val(<<"no">>)},
   PACEMAKER_SSH_KEY_PATH : {Undef, Val(<<"ke">>)}]
ToolArgs ==
  [cluster : {Undef, Val(<<"prod">>)},
   sshConfigHost : {Undef, Val(<<"ha">>)},
   sudo : {Undef, Val(<<"true">>), Val(<<"false">>)},
   privateKeyPath : {Undef, Val(<<"ka">>)}]

\* config.ts lines 168-172
toBool(value, defaultValue) ==
  IF ~value.set THEN Val(<<defaultValue>>)
  ELSE IF value.v \in {<<"1">>, <<"true">>, <<"yes">>} THEN Val(<<"true">>) ELSE Val(<<"false">>)

\* config.ts lines 144-156
envToClusterConfig(e) ==
  IF ~Truthy(e.PACEMAKER_SSH_CONFIG_HOST) THEN NoConf
  ELSE Conf(e.PACEMAKER_SSH_CONFIG_HOST, toBool(e.PACEMAKER_USE_SUDO, "false"), e.PACEMAKER_SSH_KEY_PATH)

\* config.ts lines 158-166: the defined properties of override over those of base
mergeConfig(base, override) ==
  IF ~base.defined /\ ~override.defined THEN NoConf
  ELSE [defined |-> TRUE,
        sshConfigHost |-> IF override.sshConfigHost.set THEN override.sshConfigHost ELSE base.sshConfigHost,
        sudo |-> IF override.sudo.set THEN override.sudo ELSE base.sudo,
        privateKeyPath |-> IF override.privateKeyPath.set THEN override.privateKeyPath ELSE base.privateKeyPath]

NoGlobal == [default |-> NoConf, prod |-> NoConf]

MergeIdle ==
  /\ mpc = "idle"
  /\ file = [exists |-> FALSE, default |-> NoConf, prod |-> NoConf]
  /\ env = [PACEMAKER_SSH_CONFIG_HOST |-> Undef, PACEMAKER_USE_SUDO |-> Undef, PACEMAKER_SSH_KEY_PATH |-> Undef]
  /\ args = [cluster |-> Undef, sshConfigHost |-> Undef, sudo |-> Undef, privateKeyPath |-> Undef]
  /\ globalConfig = NoGlobal
  /\ conf = NoConf

\* config.ts lines 114-142
loadConfig ==
  /\ mpc = "start"
  /\ globalConfig' =
       IF file.exists
         THEN IF envToClusterConfig(env).defined
                THEN [default |-> mergeConfig(file.default, envToClusterConfig(env)), prod |-> file.prod]
                ELSE [default |-> file.default, prod |-> file.prod]
         ELSE [default |-> envToClusterConfig(env), prod |-> NoConf]
  /\ mpc' = "loaded"
  /\ UNCHANGED <<file, env, args, conf>>
  /\ UNCHANGED <<callVars, parseVars>>

\* tools/pcs.ts lines 15-28: the rest of resolveConnection; rejected is the throw
\* of line 23
resolveConnection ==
  /\ mpc = "loaded"
  /\ LET base == IF Truthy(args.cluster) THEN globalConfig.prod ELSE globalConfig.default
         override == Conf(args.sshConfigHost, args.sudo, Undef)
     IN  /\ conf' = mergeConfig(base, override)
         /\ mpc' = IF Truthy(mergeConfig(base, override).sshConfigHost) THEN "resolved" ELSE "rejected"
  /\ UNCHANGED <<file, env, args, globalConfig>>
  /\ UNCHANGED <<callVars, parseVars>>

NextMerge == loadConfig \/ resolveConnection

InitMerge ==
  /\ InitCalls
  /\ InitScan("a")
  /\ mpc = "start"
  /\ file \in Files
  /\ env \in Envs
  /\ args \in ToolArgs
  /\ globalConfig = NoGlobal
  /\ conf = NoConf

SpecMerge == InitMerge /\ [][NextMerge]_vars

\* the parser and the connection builders run with no merge going on
InitResolve == InitCalls /\ MergeIdle /\ \E al \in Aliases : InitScan(al)

SpecResolve == InitResolve /\ [][NextResolve]_vars

\* ------------------------------------------------------ runSshCommand events
\* the catch block of the promise body (lines 322-327)
Catch(i, e) ==
  /\ timer' = [timer EXCEPT ![i] = Clear(@)]
  /\ tgt' = EndOf(tgt, targetClient[i], i)
  /\ hop' = EndOf(hop, jumpClient[i], i)
  /\ ends' = [ends EXCEPT ![i] = EndCalls(@, jumpClient[i], targetClient[i])]
  /\ outcome' = [outcome EXCEPT ![i] = Settle(@, Err(e))]
  /\ thrown' = [thrown EXCEPT ![i] = e]
  /\ pc' = [pc EXCEPT ![i] = "done"]

\* a throw before the promise exists: no timer, no session (lines 141-171)
PreambleFails(i) ==
  /\ pc[i] = "idle"
  /\ \E e \in PreambleErrors, t \in TimeoutChoices :
       /\ timeoutMs' = [timeoutMs EXCEPT ![i] = t]
       /\ outcome' = [outcome EXCEPT ![i] = Settle(@, Err(e))]
       /\ thrown' = [thrown EXCEPT ![i] = e]
  /\ pc' = [pc EXCEPT ![i] = "done"]
  /\ UNCHANGED <<useHop, hopKey, timer, jumpClient, targetClient, hop, tgt, chan, stdout, stderr,
                 arrivals, closeCode, transport, attempts, parseVars, mergeVars, ends>>

\* the promise executor up to its first suspension, direct mode (lines 249-268, 290-291)
StartDirect(i) ==
  /\ pc[i] = "idle"
  /\ \E t \in TimeoutChoices :
       /\ timeoutMs' = [timeoutMs EXCEPT ![i] = t]
       /\ timer' = [timer EXCEPT ![i] = Armed(t)]
  /\ useHop' = [useHop EXCEPT ![i] = FALSE]
  /\ tgt' = [tgt EXCEPT ![i] = "connecting"]
  /\ pc' = [pc EXCEPT ![i] = "targetConnecting"]
  /\ transport' = [transport EXCEPT ![i] = TransportOf(FALSE)]
  /\ attempts' = [attempts EXCEPT ![i].target = @ + 1]
  /\ UNCHANGED <<hopKey, jumpClient, targetClient, hop, chan, stdout, stderr, outcome, thrown,
                 arrivals, closeCode, parseVars, mergeVars, ends>>

\* the promise executor up to its first suspension, proxy mode (lines 249-272, 195-239)
StartHop(i) ==
  /\ pc[i] = "idle"
  /\ \E t \in TimeoutChoices, r \in HopResolutions, hasKey \in BOOLEAN :
       /\ timeoutMs' = [timeoutMs EXCEPT ![i] = t]
       /\ useHop' = [useHop EXCEPT ![i] = TRUE]
       /\ IF r # "ok"
            THEN \* forwardViaJump throws before any await: caught in the same turn
                 /\ timer' = [timer EXCEPT ![i] = Clear(Armed(t))]
                 /\ outcome' = [outcome EXCEPT ![i] = Settle(@, Err(r))]
                 /\ thrown' = [thrown EXCEPT ![i] = r]
                 /\ pc' = [pc EXCEPT ![i] = "done"]
                 /\ UNCHANGED <<hop, attempts>>
            ELSE /\ timer' = [timer EXCEPT ![i] = Armed(t)]
                 /\ UNCHANGED <<outcome, thrown>>
                 /\ IF hasKey
                      THEN pc' = [pc EXCEPT ![i] = "hopReadKey"] /\ UNCHANGED <<hop, attempts>>
                      ELSE /\ pc' = [pc EXCEPT ![i] = "hopConnecting"]
                           /\ hop' = [hop EXCEPT ![i] = "connecting"]
                           /\ attempts' = [attempts EXCEPT ![i].hop = @ + 1]
  /\ UNCHANGED <<hopKey, jumpClient, targetClient, tgt, chan, stdout, stderr,
                 arrivals, closeCode, transport, parseVars, mergeVars, ends>>

\* await readFile(hopIdentity) returns: hopConn.privateKey is set (line 228), then
\* connectClient(hopConn) (line 239)
HopKeyRead(i) ==
  /\ pc[i] = "hopReadKey"
  /\ hopKey' = [hopKey EXCEPT ![i] = TRUE]
  /\ pc' = [pc EXCEPT ![i] = "hopConnecting"]
  /\ hop' = [hop EXCEPT ![i] = "connecting"]
  /\ attempts' = [attempts EXCEPT ![i].hop = @ + 1]
  /\ UNCHANGED <<useHop, timeoutMs, timer, jumpClient, targetClient, tgt, chan, stdout, stderr, outcome, thrown,
                 arrivals, closeCode, transport, parseVars, mergeVars, ends>>

\* await readFile(hopIdentity) rejects (line 228)
HopKeyUnreadable(i) ==
  /\ pc[i] = "hopReadKey"
  /\ Catch(i, "HopKeyUnreadable")
  /\ UNCHANGED <<useHop, hopKey, timeoutMs, jumpClient, targetClient, chan, stdout, stderr,
                 arrivals, closeCode, transport, attempts, parseVars, mergeVars>>

\* the hop client emits ready; jump.forwardOut is requested (lines 189, 239-241)
HopReady(i) ==
  /\ pc[i] = "hopConnecting"
  /\ hop[i] = "connecting"
  /\ hop' = [hop EXCEPT ![i] = "open"]
  /\ pc' = [pc EXCEPT ![i] = "forwarding"]
  /\ attempts' = [attempts EXCEPT ![i].forward = @ + 1]
  /\ UNCHANGED <<useHop, hopKey, timeoutMs, timer, jumpClient, targetClient, tgt, chan, stdout, stderr, outcome, thrown,
                 arrivals, closeCode, transport, parseVars, mergeVars, ends>>

\* the hop client emits error (lines 190, 239), caught at line 322
HopError(i) ==
  /\ pc[i] = "hopConnecting"
  /\ timer' = [timer EXCEPT ![i] = Clear(@)]
  /\ tgt' = EndOf(tgt, targetClient[i], i)
  /\ hop' = [EndOf(hop, jumpClient[i], i) EXCEPT ![i] = "failed"]
  /\ ends' = [ends EXCEPT ![i] = EndCalls(@, jumpClient[i], targetClient[i])]
  /\ outcome' = [outcome EXCEPT ![i] = Settle(@, Err("HopAuthFailed"))]
  /\ thrown' = [thrown EXCEPT ![i] = "HopAuthFailed"]
  /\ pc' = [pc EXCEPT ![i] = "done"]
  /\ UNCHANGED <<useHop, hopKey, timeoutMs, jumpClient, targetClient, chan, stdout, stderr,
                 arrivals, closeCode, transport, attempts, parseVars, mergeVars>>

\* forwardOut's callback gets the stream; jumpClient = jump; the target connect
\* starts over the stream (lines 241-246, 272-289)
ForwardGranted(i) ==
  /\ pc[i] = "forwarding"
  /\ hop[i] = "open"
  /\ jumpClient' = [jumpClient EXCEPT ![i] = TRUE]
  /\ tgt' = [tgt EXCEPT ![i] = "connecting"]
  /\ pc' = [pc EXCEPT ![i] = "targetConnecting"]
  /\ transport' = [transport EXCEPT ![i] = TransportOf(TRUE)]
  /\ attempts' = [attempts EXCEPT ![i].target = @ + 1]
  /\ UNCHANGED <<useHop, hopKey, timeoutMs, timer, targetClient, hop, chan, stdout, stderr, outcome, thrown,
                 arrivals, closeCode, parseVars, mergeVars, ends>>

\* forwardOut's callback gets an error (line 242): forwardViaJump rejects while
\* `jump` is known only to it, and the catch at line 322 runs
ForwardError(i) ==
  /\ pc[i] = "forwarding"
  /\ Catch(i, "ForwardFailed")
  /\ UNCHANGED <<useHop, hopKey, timeoutMs, jumpClient, targetClient, chan, stdout, stderr,
                 arrivals, closeCode, transport, attempts, parseVars, mergeVars>>

\* the target client emits ready; targetClient is assigned and conn.exec is
\* called in the same turn (lines 289-294)
TargetReady(i) ==
  /\ pc[i] = "targetConnecting"
  /\ tgt[i] = "connecting"
  /\ useHop[i] => hop[i] = "open"
  /\ tgt' = [tgt EXCEPT ![i] = "open"]
  /\ targetClient' = [targetClient EXCEPT ![i] = TRUE]
  /\ chan' = [chan EXCEPT ![i] = "opening"]
  /\ pc' = [pc EXCEPT ![i] = "execOpening"]
  /\ attempts' = [attempts EXCEPT ![i].exec = @ + 1]
  /\ UNCHANGED <<useHop, hopKey, timeoutMs, timer, jumpClient, hop, stdout, stderr, outcome, thrown,
                 arrivals, closeCode, transport, parseVars, mergeVars, ends>>

\* the target client emits error (lines 190, 289/291), caught at line 322
TargetError(i) ==
  /\ pc[i] = "targetConnecting"
  /\ timer' = [timer EXCEPT ![i] = Clear(@)]
  /\ tgt' = [EndOf(tgt, targetClient[i], i) EXCEPT ![i] = "failed"]
  /\ hop' = EndOf(hop, jumpClient[i], i)
  /\ ends' = [ends EXCEPT ![i] = EndCalls(@, jumpClient[i], targetClient[i])]
  /\ outcome' = [outcome EXCEPT ![i] = Settle(@, Err("TargetAuthFailed"))]
  /\ thrown' = [thrown EXCEPT ![i] = "TargetAuthFailed"]
  /\ pc' = [pc EXCEPT ![i] = "done"]
  /\ UNCHANGED <<useHop, hopKey, timeoutMs, jumpClient, targetClient, chan, stdout, stderr,
                 arrivals, closeCode, transport, attempts, parseVars, mergeVars>>

\* conn.exec's callback without error: the handlers are installed (lines 302-320)
ExecOpened(i) ==
  /\ pc[i] = "execOpening"
  /\ tgt[i] = "open"
  /\ chan' = [chan EXCEPT ![i] = "open"]
  /\ pc' = [pc EXCEPT ![i] = "running"]
  /\ UNCHANGED <<useHop, hopKey, timeoutMs, timer, jumpClient, targetClient, hop, tgt, stdout, stderr, outcome, thrown,
                 arrivals, closeCode, transport, attempts, parseVars, mergeVars, ends>>

\* conn.exec's callback with an error (lines 295-300)
ExecError(i) ==
  /\ pc[i] = "execOpening"
  /\ chan' = [chan EXCEPT ![i] = "failed"]
  /\ timer' = [timer EXCEPT ![i] = Clear(@)]
  /\ tgt' = EndOf(tgt, TRUE, i)
  /\ hop' = EndOf(hop, jumpClient[i], i)
  /\ ends' = [ends EXCEPT ![i] = EndCalls(@, jumpClient[i], TRUE)]
  /\ outcome' = [outcome EXCEPT ![i] = Settle(@, Err("ExecFailed"))]
  /\ thrown' = [thrown EXCEPT ![i] = "ExecFailed"]
  /\ pc' = [pc EXCEPT ![i] = "done"]
  /\ UNCHANGED <<useHop, hopKey, timeoutMs, jumpClient, targetClient, stdout, stderr,
                 arrivals, closeCode, transport, attempts, parseVars, mergeVars>>

\* a chunk arrives on the primary stream (lines 314-316); the k-th data event of
\* a call carries the chunk k
StdoutData(i) ==
  /\ pc[i] = "running"
  /\ chan[i] = "open"
  /\ tgt[i] = "open"
  /\ Len(stdout[i]) + Len(stderr[i]) < MaxChunks
  /\ stdout' = [stdout EXCEPT ![i] = Accumulate(@, Len(arrivals[i]) + 1)]
  /\ arrivals' = [arrivals EXCEPT ![i] = Append(@, "out")]
  /\ UNCHANGED <<pc, useHop, hopKey, timeoutMs, timer, jumpClient, targetClient, hop, tgt, chan, stderr, outcome, thrown,
                 closeCode, transport, attempts, parseVars, mergeVars, ends>>

\* a chunk arrives on the error stream (lines 318-320)
StderrData(i) ==
  /\ pc[i] = "running"
  /\ chan[i] = "open"
  /\ tgt[i] = "open"
  /\ Len(stdout[i]) + Len(stderr[i]) < MaxChunks
  /\ stderr' = [stderr EXCEPT ![i] = Accumulate(@, Len(arrivals[i]) + 1)]
  /\ arrivals' = [arrivals EXCEPT ![i] = Append(@, "err")]
  /\ UNCHANGED <<pc, useHop, hopKey, timeoutMs, timer, jumpClient, targetClient, hop, tgt, chan, stdout, outcome, thrown,
                 closeCode, transport, attempts, parseVars, mergeVars, ends>>

\* the exec channel emits close (lines 307-313); a channel whose session was
\* ended reports no exit status
ChannelClose(i) ==
  /\ pc[i] = "running"
  /\ chan[i] = "open"
  /\ \E code \in ExitCodes :
       /\ tgt[i] # "open" => code = NoCode
       /\ closeCode' = [closeCode EXCEPT ![i] = code]
       /\ outcome' = [outcome EXCEPT ![i] = Settle(@, Result(stdout[i], stderr[i], code))]
  /\ chan' = [chan EXCEPT ![i] = "closed"]
  /\ timer' = [timer EXCEPT ![i] = Clear(@)]
  /\ tgt' = EndOf(tgt, TRUE, i)
  /\ hop' = EndOf(hop, jumpClient[i], i)
  /\ ends' = [ends EXCEPT ![i] = EndCalls(@, jumpClient[i], TRUE)]
  /\ pc' = [pc EXCEPT ![i] = "done"]
  /\ UNCHANGED <<useHop, hopKey, timeoutMs, jumpClient, targetClient, stdout, stderr, thrown,
                 arrivals, transport, attempts, parseVars, mergeVars>>

\* the setTimeout callback (lines 259-267)
TimerFires(i) ==
  /\ timer[i] = "armed"
  /\ timer' = [timer EXCEPT ![i] = "fired"]
  /\ tgt' = EndOf(tgt, targetClient[i], i)
  /\ hop' = EndOf(hop, jumpClient[i], i)
  /\ ends' = [ends EXCEPT ![i] = EndCalls(@, jumpClient[i], targetClient[i])]
  /\ outcome' = [outcome EXCEPT ![i] = Settle(@, TimeoutErr)]
  /\ UNCHANGED <<pc, useHop, hopKey, timeoutMs, jumpClient, targetClient, chan, stdout, stderr, thrown,
                 arrivals, closeCode, transport, attempts, parseVars, mergeVars>>

NextCall(i) ==
  \/ PreambleFails(i)
  \/ StartDirect(i)
  \/ StartHop(i)
  \/ HopKeyRead(i)
  \/ HopKeyUnreadable(i)
  \/ HopReady(i)
  \/ HopError(i)
  \/ ForwardGranted(i)
  \/ ForwardError(i)
  \/ TargetReady(i)
  \/ TargetError(i)
  \/ ExecOpened(i)
  \/ ExecError(i)
  \/ StdoutData(i)
  \/ StderrData(i)
  \/ ChannelClose(i)
  \/ TimerFires(i)

Init == InitCalls /\ InitScan("a") /\ MergeIdle

Next == \E i \in Calls : NextCall(i)

Spec == Init /\ [][Next]_vars

TypeOK ==
  /\ pc \in [Calls -> {"idle", "hopReadKey", "hopConnecting", "forwarding", "targetConnecting", "execOpening", "running", "done"}]
  /\ timer \in [Calls -> {"none", "armed", "fired", "cleared"}]
  /\ hop \in [Calls -> {"none", "connecting", "open", "closed", "failed"}]
  /\ tgt \in [Calls -> {"none", "connecting", "open", "closed", "failed"}]
  /\ chan \in [Calls -> {"none", "opening", "open", "closed", "failed"}]

\* ------------------------------------------------------------------ claims
ConnectErrors == {"HopNotFound", "HopMissingHostName", "HopKeyUnreadable", "HopAuthFailed", "ForwardFailed", "TargetAuthFailed"}
NoneOpen(i) == hop[i] # "open" /\ tgt[i] # "open"
CallState(i) == <<pc[i], useHop[i], hopKey[i], timeoutMs[i], timer[i], jumpClient[i], targetClient[i],
                  hop[i], tgt[i], chan[i], stdout[i], stderr[i], outcome[i], thrown[i],
                  arrivals[i], closeCode[i], transport[i], attempts[i], ends[i]>>

\* C1: once the Timeout has been delivered to the caller of a call, neither the
\* hop session nor the target session of that call is open.
C1_TimeoutClosesSessions ==
  \A i \in Calls : outcome[i] = TimeoutErr => NoneOpen(i)

\* C2: a call whose countdown elapsed (the timer callback ran, which it only does
\* while the exec channel has not closed) has failed with the Timeout error, which
\* carries no stdout and no stderr, whatever was accumulated and whatever happens
\* to the channel afterwards.
C2_TimeoutDiscardsOutput ==
  \A i \in Calls : timer[i] = "fired" => outcome[i] = TimeoutErr

C2_Witness ==
  \E i \in Calls : timer[i] = "fired" /\ stdout[i] # <<>> /\ chan[i] = "closed"

\* C3: the outcome of a call, once delivered, never changes (no second outcome),
\* and a result is delivered only with the exec channel closed and carries the
\* accumulated stdout and stderr.
C3_SingleOutcome ==
  /\ [](\A i \in Calls : outcome[i].kind = "result" =>
          /\ chan[i] = "closed"
          /\ outcome[i].stdout = stdout[i]
          /\ outcome[i].stderr = stderr[i])
  /\ [][\A i \in Calls : outcome[i] # Pending => outcome'[i] = outcome[i]]_vars

C3_Witness ==
  \E i \in Calls : timer[i] = "fired" /\ thrown[i] = "ExecFailed" /\ outcome[i].kind = "error"

\* C4: when a step of establishing the connection failed, the call failed with
\* that step's error and no hop or target session of the call is open.
C4_ConnectFailureClosesAll ==
  \A i \in Calls : thrown[i] \in ConnectErrors =>
     outcome[i] = Err(thrown[i]) /\ NoneOpen(i)

\* C5 (as stated): when opening the exec channel failed, the call failed with that
\* error, the countdown is cancelled and the sessions are closed.
C5_ExecFailureAsStated ==
  \A i \in Calls : thrown[i] = "ExecFailed" =>
     outcome[i] = Err("ExecFailed") /\ timer[i] # "armed" /\ NoneOpen(i)

\* C5 (amended): when opening the exec channel failed, the countdown is cancelled
\* and the target and hop sessions are closed, and the call failed with that error
\* unless the Timeout had been delivered before.
C5_ExecFailureCleansUp ==
  \A i \in Calls : thrown[i] = "ExecFailed" =>
     /\ timer[i] # "armed"
     /\ NoneOpen(i)
     /\ outcome[i] = IF timer[i] = "fired" THEN TimeoutErr ELSE Err("ExecFailed")

C5_Witness ==
  \E i \in Calls : thrown[i] = "ExecFailed" /\ useHop[i] /\ hop[i] = "closed" /\ timer[i] = "cleared"

\* C6: a step changes the state of at most one call: no event of a call touches
\* the sessions, the countdown, the outcome or the captured output of another.
C6_CallsIndependent ==
  [][\A i, j \in Calls : i # j => (CallState(i)' = CallState(i) \/ CallState(j)' = CallState(j))]_vars

C6_Witness ==
  \E i, j \in Calls :
     /\ i # j
     /\ timer[i] = "fired" /\ outcome[i] = TimeoutErr
     /\ pc[j] = "running" /\ tgt[j] = "open" /\ timer[j] = "armed" /\ stdout[j] # <<>>

ParserDone == rpc \in {"returned", "connected", "failed", "hopConnected", "hopFailed"}

\* C7: when two or more Host lines of the text list the alias, the entry the
\* parser returns holds exactly the attributes of the block under the first of
\* them, whatever that block contains.
C7_FirstBlockOnly ==
  (ParserDone /\ listed = 2 /\ parsed.set) => parsed.v = firstBlock

\* C8: the parser returns undefined exactly when no Host line of the text lists
\* the alias, so the AliasNotFound error is raised for such texts only.
C8_NotFoundIffUnlisted ==
  ParserDone =>
    /\ parsed.set <=> listed > 0
    /\ resolveError = "AliasNotFound" => listed = 0

\* C9: the target connection accepts any host key (hostVerifier installed) exactly
\* when the override is true, or the override is not false and the entry has
\* StrictHostKeyChecking "no" or UserKnownHostsFile "/dev/null".
C9_HostKeyPolicy ==
  rpc = "connected" =>
    (connection.hostVerifier <=>
       \/ clusterCfg.insecureAcceptUnknownHostKeys = "true"
       \/ /\ clusterCfg.insecureAcceptUnknownHostKeys # "false"
          /\ \/ parsed.v.strictHostKeyChecking = Val(<<"no">>)
             \/ parsed.v.userKnownHostsFile = Val(<<"/dev/null">>))

C9_Witness ==
  /\ rpc = "connected"
  /\ clusterCfg.insecureAcceptUnknownHostKeys = "false"
  /\ parsed.v.strictHostKeyChecking = Val(<<"no">>)
  /\ parsed.v.userKnownHostsFile = Val(<<"/dev/null">>)
  /\ ~connection.hostVerifier

\* C10: the target's credential is the override identity file if one is given,
\* else the entry's first IdentityFile, else the agent socket if the environment
\* has one, else none.
C10_CredentialOrder ==
  rpc = "connected" =>
    IF clusterCfg.privateKeyPath.set
      THEN connection.credential = "privateKey" /\ connection.key = clusterCfg.privateKeyPath.v
    ELSE IF Len(parsed.v.identityFiles) > 0
      THEN connection.credential = "privateKey"
           /\ connection.key = <<expandHome(parsed.v.identityFiles[1][1])>>
    ELSE IF clusterCfg.SSH_AUTH_SOCK THEN connection.credential = "agent"
    ELSE connection.credential = "none"

\* the chunks of the data events that arrived on stream s, in arrival order
RECURSIVE ArrivedOn(_, _, _)
ArrivedOn(a, s, k) ==
  IF k > Len(a) THEN <<>>
  ELSE (IF a[k] = s THEN <<k>> ELSE <<>>) \o ArrivedOn(a, s, k + 1)

\* C11: when the exec channel closed and no timeout had fired, the call returned
\* the exit status the close event carried, stdout = the chunks that arrived on the
\* primary stream in arrival order, and stderr = the chunks that arrived on the
\* error stream in arrival order.
C11_ResultIsWhatArrived ==
  \A i \in Calls : (chan[i] = "closed" /\ timer[i] # "fired") =>
     outcome[i] = Result(ArrivedOn(arrivals[i], "out", 1), ArrivedOn(arrivals[i], "err", 1), closeCode[i])

C11_Witness ==
  \E i \in Calls :
     /\ chan[i] = "closed" /\ timer[i] = "cleared"
     /\ arrivals[i] = <<"err", "out">>
     /\ outcome[i] = Result(<<2>>, <<1>>, Code(3))

\* C13: in proxy mode the target client never connects over a direct socket; its
\* handshake starts only when the forwarded channel is granted by the open hop
\* session, and the exec channel is requested only when the target session has
\* become ready.
C13_TunnelOrder ==
  /\ [](\A i \in Calls : useHop[i] =>
          /\ transport[i] # "direct"
          /\ tgt[i] # "none" => (jumpClient[i] /\ transport[i] = "forwarded" /\ attempts[i].forward = 1)
          /\ attempts[i].forward > 0 => hop[i] \in {"open", "closed"}
          /\ chan[i] # "none" => targetClient[i])
  /\ [][\A i \in Calls : useHop'[i] =>
          /\ (tgt[i] = "none" /\ tgt'[i] # "none") => (pc[i] = "forwarding" /\ hop[i] = "open")
          /\ (chan[i] = "none" /\ chan'[i] # "none") => (pc[i] = "targetConnecting" /\ tgt'[i] = "open")]_vars

C13_Witness ==
  \E i \in Calls : useHop[i] /\ transport[i] = "forwarded" /\ chan[i] = "open" /\ hop[i] = "open" /\ tgt[i] = "open"

StepErrors == {"HopAuthFailed", "ForwardFailed", "TargetAuthFailed", "ExecFailed"}
AttemptedOnce(i) ==
  attempts[i].hop <= 1 /\ attempts[i].forward <= 1 /\ attempts[i].target <= 1 /\ attempts[i].exec <= 1

\* C16 (as stated): each step of a call is started at most once, and the first
\* failure of a step ends the call with that failure's error.
C16_NoRetryAsStated ==
  \A i \in Calls :
     /\ AttemptedOnce(i)
     /\ thrown[i] \in StepErrors => (pc[i] = "done" /\ outcome[i] = Err(thrown[i]))

\* C16 (amended): each step of a call is started at most once, and the first
\* failure of a step ends the call, with that failure's error unless the Timeout
\* error had been delivered before.
C16_NoRetry ==
  \A i \in Calls :
     /\ AttemptedOnce(i)
     /\ thrown[i] \in StepErrors =>
          /\ pc[i] = "done"
          /\ outcome[i] = IF timer[i] = "fired" THEN TimeoutErr ELSE Err(thrown[i])

C16_Witness ==
  \E i \in Calls :
     /\ thrown[i] = "TargetAuthFailed" /\ outcome[i] = Err("TargetAuthFailed")
     /\ attempts[i] = [hop |-> 1, forward |-> 1, target |-> 1, exec |-> 0]

\* C17: a call whose timeoutMs is absent or 0 has no countdown: it never fails
\* with Timeout, and it ends only by the channel's close or by an error of a step.
C17_NoTimeoutWithoutCountdown ==
  \A i \in Calls : (pc[i] # "idle" /\ ~(timeoutMs[i].given /\ timeoutMs[i].ms > 0)) =>
     /\ timer[i] = "none"
     /\ outcome[i] # TimeoutErr
     /\ outcome[i] # Pending => (chan[i] = "closed" \/ thrown[i] # "none")

C17_Witness ==
  \E i \in Calls :
     /\ timeoutMs[i] = Ms(0) /\ timer[i] = "none"
     /\ pc[i] = "running" /\ arrivals[i] # <<>> /\ outcome[i] = Pending

HopDone == rpc \in {"hopConnected", "hopFailed"}
TargetBuilt == rpc \in {"connected", "hopConnected", "hopFailed"}

\* C12: with proxyJump set the hop connection is built for the alias of the first
\* comma-separated element (after the '@' if there is one, the part before it
\* being the hop's username); later elements are not looked up, and the hop is
\* connected to directly even when its own entry has a proxyJump.
C12_FirstHopOnly ==
  /\ rpc = "hopConnected" =>
       /\ parsed.v.proxyJump.v \in {<<"u2@b,c">>, <<"b">>}
       /\ hopConn.alias = "b"
       /\ hopConn.host = hopScan["b"].cfg.hostName.v
       /\ parsed.v.proxyJump.v = <<"u2@b,c">> => hopConn.username = <<"u2">>
       /\ parsed.v.proxyJump.v = <<"b">> =>
            hopConn.username = IF hopScan["b"].cfg.user.set THEN hopScan["b"].cfg.user.v ELSE <<"localuser">>
       /\ ~hopConn.sock
  /\ (rpc = "hopFailed" /\ resolveError = "HopNotFound") => ~hopScan["b"].found

C12_Witness ==
  /\ rpc = "hopConnected"
  /\ alias = "a"
  /\ parsed.v.proxyJump = Val(<<"u2@b,c">>)
  /\ hopScan["b"].cfg.proxyJump.set
  /\ hopConn.alias = "b" /\ hopConn.username = <<"u2">>
  /\ hopConn.host = <<"h2">> /\ connection.host = <<"h1">>

\* C14: the hop's credential is the proxyJumpIdentityFile of the target entry,
\* else the first IdentityFile of the hop's own entry, else the agent socket if
\* the environment has one, else none; the target's IdentityFile list plays no part.
C14_HopCredentialOrder ==
  rpc = "hopConnected" =>
    LET own == hopScan[hopConn.alias].cfg.identityFiles
    IN  IF parsed.v.proxyJumpIdentityFile.set
          THEN /\ hopConn.credential = "privateKey"
               /\ hopConn.key = <<expandHome(parsed.v.proxyJumpIdentityFile.v[1])>>
        ELSE IF Len(own) > 0
          THEN hopConn.credential = "privateKey" /\ hopConn.key = <<expandHome(own[1][1])>>
        ELSE IF clusterCfg.SSH_AUTH_SOCK THEN hopConn.credential = "agent" /\ hopConn.key = <<>>
        ELSE hopConn.credential = "none" /\ hopConn.key = <<>>

C14_Witness ==
  /\ rpc = "hopConnected"
  /\ alias = "a"
  /\ Len(parsed.v.identityFiles) > 0
  /\ ~parsed.v.proxyJumpIdentityFile.set
  /\ hopScan["b"].cfg.identityFiles = <<>>
  /\ connection.credential = "privateKey"
  /\ hopConn.credential = "agent"

\* C15: a hop alias that no Host line lists fails the call with HopNotFound, a hop
\* whose block has no HostName fails it with HopMissingHostName, and in both cases
\* no hop connection has been built.
C15_HopErrors ==
  HopDone =>
    /\ ~hopScan["b"].listed => (rpc = "hopFailed" /\ resolveError = "HopNotFound")
    /\ (hopScan["b"].listed /\ ~(hopScan["b"].found /\ Truthy(hopScan["b"].cfg.hostName))) =>
         (rpc = "hopFailed" /\ resolveError = "HopMissingHostName")
    /\ rpc = "hopFailed" =>
         (hopConn = NoHopConn /\ resolveError \notin {"AliasNotFound", "MissingHostName"})

\* C18: the target's username is the username argument of the call if one is
\* given, else the User of the entry, else the local user name; a user@alias in
\* proxyJump does not change it.
C18_UsernameOrder ==
  TargetBuilt =>
    connection.username =
      IF clusterCfg.argsUsername.set THEN clusterCfg.argsUsername.v
      ELSE IF parsed.v.user.set THEN parsed.v.user.v
      ELSE <<"localuser">>

\* C19 (as stated): a ProxyCommand value whose first token is ssh and that holds
\* a -W token directly followed by %h:%p sets proxyJump to the token after %h:%p
\* and proxyJumpIdentityFile to the argument of -i; any other ProxyCommand value
\* leaves both unchanged.
C19_ProxyCommandAsStated ==
  [][cfg'.proxyCommandRaw # cfg.proxyCommandRaw =>
       LET t == cfg'.proxyCommandRaw.v
           ws == {k \in 1..(Len(t) - 1) : t[k] = "-W" /\ t[k + 1] = "%h:%p"}
           is == {k \in 1..(Len(t) - 1) : t[k] = "-i"}
       IN  IF t[1] = "ssh" /\ ws # {}
             THEN LET w == CHOOSE k \in ws : TRUE
                  IN  /\ w + 2 <= Len(t) => cfg'.proxyJump = Val(<<t[w + 2]>>)
                      /\ IF is # {}
                           THEN \E k \in is : (\A j \in is : k <= j)
                                              /\ cfg'.proxyJumpIdentityFile = Val(<<t[k + 1]>>)
                           ELSE cfg'.proxyJumpIdentityFile = cfg.proxyJumpIdentityFile
             ELSE /\ cfg'.proxyJump = cfg.proxyJump
                  /\ cfg'.proxyJumpIdentityFile = cfg.proxyJumpIdentityFile]_vars

\* C19 (amended): a ProxyCommand value whose first token is ssh and whose first
\* -W token is directly followed by %h:%p sets proxyJump to the token after
\* %h:%p, overwriting an earlier value, and proxyJumpIdentityFile to the argument
\* of -i; any other ProxyCommand value leaves both unchanged.
C19_ProxyCommandFirstW ==
  [][cfg'.proxyCommandRaw # cfg.proxyCommandRaw =>
       LET t == cfg'.proxyCommandRaw.v
           ws == {k \in 1..(Len(t) - 1) :
                    t[k] = "-W" /\ t[k + 1] = "%h:%p" /\ \A j \in 1..(k - 1) : t[j] # "-W"}
           is == {k \in 1..(Len(t) - 1) : t[k] = "-i"}
       IN  IF t[1] = "ssh" /\ ws # {}
             THEN LET w == CHOOSE k \in ws : TRUE
                  IN  /\ w + 2 <= Len(t) => cfg'.proxyJump = Val(<<t[w + 2]>>)
                      /\ IF is # {}
                           THEN \E k \in is : (\A j \in is : k <= j)
                                              /\ cfg'.proxyJumpIdentityFile = Val(<<t[k + 1]>>)
                           ELSE cfg'.proxyJumpIdentityFile = cfg.proxyJumpIdentityFile
             ELSE /\ cfg'.proxyJump = cfg.proxyJump
                  /\ cfg'.proxyJumpIdentityFile = cfg.proxyJumpIdentityFile]_vars

C19_Witness ==
  /\ ParserDone /\ parsed.set
  /\ parsed.v.proxyCommandRaw = Val(<<"ssh", "-W", "%h:%p", "b", "-i", "~/k3">>)
  /\ parsed.v.proxyJump = Val(<<"b">>)
  /\ parsed.v.proxyJumpIdentityFile = Val(<<"~/k3">>)
  /\ firstBlock.proxyJump = Val(<<"b">>)

\* C20: the entry's identityFiles are the values of the IdentityFile lines of the
\* block it is taken from, as many and in the order of the lines, and the first
\* of them, if any, is the key of the target connection.
C20_IdentityFilesInOrder ==
  (ParserDone /\ parsed.set) =>
    /\ block.lists /\ block.kv
    /\ parsed.v.identityFiles = block.ids
    /\ TargetBuilt =>
         IF Len(block.ids) > 0
           THEN connection.credential = "privateKey" /\ connection.key = <<expandHome(block.ids[1][1])>>
           ELSE connection.credential # "privateKey"

C20_Witness ==
  /\ rpc = "connected"
  /\ listed = 2
  /\ block.ids = << <<"k2">>, <<"~/k1">>, <<"k2">> >>
  /\ parsed.v.identityFiles = block.ids
  /\ connection.key = <<"k2">>

\* what the environment sets for a field, and what the config file holds for it
\* in the entry the call selects
EnvValue(f) ==
  CASE f = "sshConfigHost" -> env.PACEMAKER_SSH_CONFIG_HOST
    [] f = "sudo" -> IF env.PACEMAKER_USE_SUDO.set THEN toBool(env.PACEMAKER_USE_SUDO, "false") ELSE Undef
    [] f = "privateKeyPath" -> env.PACEMAKER_SSH_KEY_PATH
FileValue(f) == IF args.cluster.set THEN file.prod[f] ELSE file.default[f]

\* C21: every field of the effective connection config of a tool call is the
\* argument of the call if one is given, else the value the environment sets,
\* else the value of the config file's entry (default or named cluster).
C21_LastWinsMerge ==
  mpc \in {"resolved", "rejected"} =>
    \A f \in Fields :
       conf[f] = IF args[f].set THEN args[f]
                 ELSE IF EnvValue(f).set THEN EnvValue(f)
                 ELSE FileValue(f)

\* C22: on every exit path of a call the cleanup runs once: when the call has
\* ended no session of it is open, and end() is called on no client a second time.
C22_CleanupOnce ==
  \A i \in Calls :
     /\ ends[i].hop <= 1 /\ ends[i].tgt <= 1
     /\ outcome[i] # Pending => (hop[i] # "open" /\ tgt[i] # "open")

\* C23: once a call has failed with Timeout it completes no handshake that
\* leaves a session open and requests no exec channel.
C23_NothingAfterTimeout ==
  [][\A i \in Calls : outcome[i] = TimeoutErr =>
       /\ ~(hop[i] # "open" /\ hop'[i] = "open")
       /\ ~(tgt[i] # "open" /\ tgt'[i] = "open")
       /\ ~(chan[i] = "none" /\ chan'[i] # "none")]_vars

====
